---------------------------- MODULE Spec2Model ----------------------------
(***************************************************************************)
(* KPOD to MIDI bridge (src/gui_main.py, class KPODBridgeGUI).             *)
(*                                                                         *)
(* The polling worker (kpod_worker) exchanges one 8-byte HID report per    *)
(* cycle, tracks the rocker position, and calls send_note for the          *)
(* position change, for every encoder tick and for the button.  The worker *)
(* is modelled at the granularity of the blocks of its loop body:          *)
(*   "loop"    while self.running / send_kpod_command('u')   (337-347)     *)
(*   "rocker"  rocker detection and position change          (348-356)     *)
(*   "encoder" encoder ticks                                 (358-373)     *)
(*   "button"  button note                                   (375-399)     *)
(*   "sleep"   time.sleep(0.01)                              (401)         *)
(***************************************************************************)
EXTENDS Integers, Sequences, FiniteSets, TLC

\* ------------------------------------------------------------------ bounds
\* Worker threads that may exist at the same time.
MaxWorkers == 2
\* Largest magnitude of the tick delta a report carries.
MaxTick == 3
\* Number of valid reports recorded in hist (specification SpecSeq).
MaxCycles == 4

\* ------------------------------------------------------- program constants
KPOD_USB_CMD_UPDATE == 117
REPORT_LEN == 8
\* Command echo of the firmware-version query ('v'): a reply that is not 'u'.
CMD_VERSION == 118
\* Default velocity of send_note.
VELOCITY == 127
NOTE_ON == 144
NOTE_OFF == 128

Workers == 1..MaxWorkers
Bytes == 0..255
Positions == {"UNKNOWN", "VFO A", "VFO B", "XIT/RIT"}

TAP_NOTE_MAP ==
    (65 :> 64) @@ (66 :> 65) @@ (67 :> 66) @@ (68 :> 67) @@
    (69 :> 68) @@ (70 :> 69) @@ (71 :> 70) @@ (72 :> 71)

HOLD_NOTE_MAP ==
    (81 :> 72) @@ (82 :> 73) @@ (83 :> 74) @@ (84 :> 75) @@
    (85 :> 76) @@ (86 :> 77) @@ (87 :> 78) @@ (88 :> 79)

ROCKER_POSITION_NOTES ==
    ("VFO A" :> 110) @@ ("VFO B" :> 111) @@ ("XIT/RIT" :> 112)

ENCODER_NOTES == ("CW" :> 100) @@ ("CCW" :> 101)

\* ------------------------------------------------------------ byte algebra
\* (x >> n) on a non-negative integer.
Shr(x, n) == x \div (2 ^ n)

\* (1 << i)
Shl1(i) == 2 ^ i

\* a & b on bytes, bit by bit.
BitAnd(a, b) ==
    LET bit(x, i) == (x \div (2 ^ i)) % 2
        term(i) == IF bit(a, i) = 1 /\ bit(b, i) = 1 THEN 2 ^ i ELSE 0
    IN  term(0) + term(1) + term(2) + term(3) + term(4) + term(5) + term(6) + term(7)

\* a | b on bytes, bit by bit.
BitOr(a, b) ==
    LET bit(x, i) == (x \div (2 ^ i)) % 2
        term(i) == IF bit(a, i) = 1 \/ bit(b, i) = 1 THEN 2 ^ i ELSE 0
    IN  term(0) + term(1) + term(2) + term(3) + term(4) + term(5) + term(6) + term(7)

\* struct.unpack("<h", bytes(response[1:3]))[0]: little-endian signed 16 bit.
UnpackShort(lo, hi) ==
    LET u == lo + 256 * hi
    IN  IF u >= 32768 THEN u - 65536 ELSE u

\* The device's encoding of a tick delta t into bytes 1 and 2 of the report.
TickLo(t) == (t % 65536) % 256
TickHi(t) == (t % 65536) \div 256

\* Variant: range(ticks) without abs.
AbsMissing(x) == x

Abs(x) == IF x < 0 THEN -x ELSE x

\* ---------------------------------------------------------------- reports
\* A response of send_kpod_command: len = 0 stands for None (or an empty read),
\* b0..b3 are bytes 0..3 of the report; bytes 4..7 are never read.
NoResponse == [len |-> 0, b0 |-> 0, b1 |-> 0, b2 |-> 0, b3 |-> 0]

UpdateReport(t, c) ==
    [len |-> REPORT_LEN, b0 |-> KPOD_USB_CMD_UPDATE,
     b1 |-> TickLo(t), b2 |-> TickHi(t), b3 |-> c]

\* Responses the worker skips: nothing read, a short read, a foreign echo.
MalformedReports ==
    { NoResponse,
      [UpdateReport(1, 65) EXCEPT !.len = REPORT_LEN - 1],
      [UpdateReport(1, 65) EXCEPT !.b0 = CMD_VERSION] }

Ticks == (0 - MaxTick)..MaxTick

\* Every valid report: all 256 control bytes, every tick delta in range.
AllReports == { UpdateReport(t, c) : t \in Ticks, c \in Bytes } \cup MalformedReports

\* Variant: the length test alone, without the test of the command echo.
ValidReportLengthOnly(r) == r.len = REPORT_LEN

\* "if response and len(response) == 8" and "if cmd_reply == ord('u')".
ValidReport(r) == r.len = REPORT_LEN /\ r.b0 = KPOD_USB_CMD_UPDATE

TicksOf(r) == UnpackShort(r.b1, r.b2)
ControlsOf(r) == r.b3

\* ------------------------------------------------------- the notifications
\* The messages of the queue, with the text of a log line or of an action
\* reduced to its kind.
LogMsg == <<"LOG">>
StatusMsg(component, status) == <<"STATUS", component, status>>
RockerMsg(display_name) == <<"ROCKER", display_name>>
ActionMsg(kind) == <<"ACTION", kind>>

\* update_rocker_display: the display name of a position.
display_names ==
    ("VFO A" :> "VFO A (Left)") @@ ("VFO B" :> "VFO B (Center)") @@
    ("XIT/RIT" :> "XIT/RIT (Right)") @@ ("UNKNOWN" :> "Unknown (move rocker to detect)")

\* setup_gui: the labels as created; log_text is "empty" or "text".
InitialWidgets ==
    [kpod_status |-> "Disconnected", midi_status |-> "Disconnected",
     rocker_label |-> "Unknown (move rocker to detect)", last_action |-> "None",
     log_text |-> "empty"]

VARIABLES
    midi_out,        \* self.midi_out: "none" | "unopened" | "open"
    midi_timer,      \* root.after(500, delayed_midi_setup) still pending
    device,          \* self.device: "none" | "open"
    current_rocker,  \* self.current_rocker
    running,         \* self.running
    pc,              \* position of each worker thread
    resp,            \* each worker's local: response
    pos0,            \* history: current_rocker when the worker's cycle began
    sent,            \* history: send_note calls of the cycles in progress
    hist,            \* history: the completed cycles with a valid report
    cancelled,       \* history: the workers alive when Stop was last pressed
    message_queue,   \* self.message_queue: the notifications not yet consumed
    widgets          \* what the labels and the log of the window show

vars == <<midi_out, midi_timer, device, current_rocker, running, pc, resp, pos0, sent, hist,
          cancelled, message_queue, widgets>>

Init ==
    /\ midi_out = "none"
    /\ midi_timer = TRUE
    /\ device = "none"
    /\ current_rocker = "UNKNOWN"
    /\ running = FALSE
    /\ pc = [w \in Workers |-> "idle"]
    /\ resp = [w \in Workers |-> NoResponse]
    /\ pos0 = [w \in Workers |-> "UNKNOWN"]
    /\ sent = << >>
    /\ hist = << >>
    /\ cancelled = {}
    /\ message_queue = << >>
    /\ widgets = InitialWidgets


\* ------------------------------------------------------- the pure functions
\* Variant: the rocker bits taken from bits 4-5, (controls >> 4) & 0x03.
detect_shift4(controls, has_activity, cur) ==
    LET rocker_bits == BitAnd(Shr(controls, 4), 3)
    IN  IF rocker_bits = 2 THEN "VFO A"
        ELSE IF rocker_bits = 1 THEN "XIT/RIT"
        ELSE IF controls = 0 /\ has_activity THEN "VFO B"
        ELSE IF controls = 0 /\ cur \notin {"VFO B", "UNKNOWN"} THEN "VFO B"
        ELSE "None"

\* Variant: the last branch without its test of the current position.
detect_center_at_rest(controls, has_activity, cur) ==
    LET rocker_bits == BitAnd(Shr(controls, 5), 3)
    IN  IF rocker_bits = 2 THEN "VFO A"
        ELSE IF rocker_bits = 1 THEN "XIT/RIT"
        ELSE IF controls = 0 /\ has_activity THEN "VFO B"
        ELSE IF controls = 0 THEN "VFO B"
        ELSE "None"

\* Variant: without the last branch (center inferred from activity only).
detect_activity_only(controls, has_activity, cur) ==
    LET rocker_bits == BitAnd(Shr(controls, 5), 3)
    IN  IF rocker_bits = 2 THEN "VFO A"
        ELSE IF rocker_bits = 1 THEN "XIT/RIT"
        ELSE IF controls = 0 /\ has_activity THEN "VFO B"
        ELSE "None"

\* Variant: center inferred from activity without the test of the control byte.
detect_center_any_activity(controls, has_activity, cur) ==
    LET rocker_bits == BitAnd(Shr(controls, 5), 3)
    IN  IF rocker_bits = 2 THEN "VFO A"
        ELSE IF rocker_bits = 1 THEN "XIT/RIT"
        ELSE IF has_activity THEN "VFO B"
        ELSE IF controls = 0 /\ cur \notin {"VFO B", "UNKNOWN"} THEN "VFO B"
        ELSE "None"

\* Variant: each rocker bit tested on its own, bit 6 first.
detect_bitwise(controls, has_activity, cur) ==
    LET rocker_bits == BitAnd(Shr(controls, 5), 3)
    IN  IF BitAnd(rocker_bits, 2) # 0 THEN "VFO A"
        ELSE IF BitAnd(rocker_bits, 1) # 0 THEN "XIT/RIT"
        ELSE IF controls = 0 /\ has_activity THEN "VFO B"
        ELSE IF controls = 0 /\ cur \notin {"VFO B", "UNKNOWN"} THEN "VFO B"
        ELSE "None"

\* detect_rocker_position_from_event: the new position, or "None".
detect_rocker_position_from_event(controls, has_activity, cur) ==
    LET rocker_bits == BitAnd(Shr(controls, 5), 3)
    IN  IF rocker_bits = 2 THEN "VFO A"
        ELSE IF rocker_bits = 1 THEN "XIT/RIT"
        ELSE IF controls = 0 /\ has_activity THEN "VFO B"
        ELSE IF controls = 0 /\ cur \notin {"VFO B", "UNKNOWN"} THEN "VFO B"
        ELSE "None"

\* "has_activity = ticks != 0 or (controls & 0x0F) != 0"
HasActivity(ticks, controls) == ticks # 0 \/ BitAnd(controls, 15) # 0

\* Variant: the ENCODER_NOTES pair at every position.
get_encoder_notes_flat(cur) == <<ENCODER_NOTES["CW"], ENCODER_NOTES["CCW"]>>

\* Variant: the two notes of each pair exchanged.
get_encoder_notes_swapped(cur) ==
    IF cur = "XIT/RIT" THEN <<103, 102>>
    ELSE <<ENCODER_NOTES["CCW"], ENCODER_NOTES["CW"]>>

\* get_encoder_notes: <<cw_note, ccw_note>> for the tracked position.
get_encoder_notes(cur) ==
    IF cur = "XIT/RIT" THEN <<102, 103>>
    ELSE <<ENCODER_NOTES["CW"], ENCODER_NOTES["CCW"]>>

\* The button loop: the first i in range(8) with button_bits & (1 << i).
FirstButton(button_bits) ==
    CHOOSE i \in 0..7 :
        /\ BitAnd(button_bits, Shl1(i)) # 0
        /\ \A j \in 0..7 : j < i => BitAnd(button_bits, Shl1(j)) = 0

\* Variant: the fallback adds the button bitmask instead of the loop index.
ButtonNoteMaskFallback(controls) ==
    LET button_bits == BitAnd(controls, 15)
        hold == BitAnd(controls, 16) # 0
    IN  IF ~hold /\ BitOr(64, button_bits) \in DOMAIN TAP_NOTE_MAP
            THEN TAP_NOTE_MAP[BitOr(64, button_bits)]
        ELSE IF hold /\ BitOr(80, button_bits) \in DOMAIN HOLD_NOTE_MAP
            THEN HOLD_NOTE_MAP[BitOr(80, button_bits)]
        ELSE (IF hold THEN 72 ELSE 64) + button_bits

\* The note of the button block, for a control byte with button bits set.
ButtonNote(controls) ==
    LET button_bits == BitAnd(controls, 15)
        hold == BitAnd(controls, 16) # 0
        i == FirstButton(button_bits)
    IN  IF ~hold /\ BitOr(64, button_bits) \in DOMAIN TAP_NOTE_MAP
            THEN TAP_NOTE_MAP[BitOr(64, button_bits)]
        ELSE IF hold /\ BitOr(80, button_bits) \in DOMAIN HOLD_NOTE_MAP
            THEN HOLD_NOTE_MAP[BitOr(80, button_bits)]
        ELSE (IF hold THEN 72 ELSE 64) + i

\* ------------------------------------------------------------------- MIDI
\* Outcomes of one send_note call:
\*   "skip"    self.midi_out is None, nothing is sent;
\*   "no_port" the MidiOut object exists but no port was opened: the library
\*             drops or rejects the messages, nothing is delivered;
\*   "ok"      Note-On and Note-Off delivered;
\*   "on_err"  the Note-On send raised: nothing delivered, Note-Off not tried;
\*   "off_err" the Note-On was delivered and the Note-Off send raised.
SendOutcomes(faults) ==
    IF midi_out = "none" THEN {"skip"}
    ELSE IF midi_out = "unopened" THEN {"no_port"}
    ELSE {"ok"} \cup faults

\* One send_note call by worker w, as recorded in sent.
send_note(w, kind, note, res) == [w |-> w, kind |-> kind, note |-> note, res |-> res]

\* The MIDI messages a recorded call put on the wire.
WireOf(call) ==
    IF call.res = "ok"
        THEN << <<NOTE_ON, call.note, VELOCITY>>, <<NOTE_OFF, call.note, 0>> >>
    ELSE IF call.res = "off_err" THEN << <<NOTE_ON, call.note, VELOCITY>> >>
    ELSE << >>

RECURSIVE Wire(_)
Wire(calls) ==
    IF calls = << >> THEN << >> ELSE WireOf(Head(calls)) \o Wire(Tail(calls))

\* send_rocker_position_change: the note sent for the new position.
send_rocker_position_change(new_position) ==
    IF new_position \in DOMAIN ROCKER_POSITION_NOTES
        THEN <<ROCKER_POSITION_NOTES[new_position]>>
        ELSE << >>

\* Variant: the button block ahead of the encoder block.
SuccButtonFirst(p) ==
    CASE p = "rocker" -> "button"
      [] p = "button" -> "encoder"
      [] p = "encoder" -> "sleep"

\* The order of the blocks of the loop body.
Succ(p) ==
    CASE p = "rocker" -> "encoder"
      [] p = "encoder" -> "button"
      [] p = "button" -> "sleep"

\* The calls of worker w in sent, as <<kind, note>> pairs.
CallsOf(w) ==
    LET mine == SelectSeq(sent, LAMBDA c : c.w = w)
    IN  [i \in 1..Len(mine) |-> <<mine[i].kind, mine[i].note>>]

\* ---------------------------------------------------------------- actions
\* delayed_midi_setup -> setup_midi, run once by the Tk timer set in __init__.
\* "open": the IAC port was opened; "unopened": MidiOut() was created and no
\* IAC port found (return False at 180 leaves the object in self.midi_out);
\* "none": an exception, self.midi_out reset to None.
delayed_midi_setup ==
    /\ midi_timer
    /\ midi_timer' = FALSE
    /\ \E r \in {"open", "unopened", "none"} : midi_out' = r
    /\ UNCHANGED <<device, current_rocker, running, pc, resp, pos0, sent, hist, cancelled>>

\* Variant: Start resets the tracked position.
start_kpod_reset ==
    /\ ~running
    /\ \E w \in Workers :
        /\ pc[w] = "idle"
        /\ \A v \in Workers : v < w => pc[v] # "idle"
        /\ pc' = [pc EXCEPT ![w] = "setup"]
    /\ running' = TRUE
    /\ current_rocker' = "UNKNOWN"
    /\ UNCHANGED <<midi_out, midi_timer, device, resp, pos0, sent, hist, cancelled>>

\* start_kpod: the Start button.
start_kpod ==
    /\ ~running
    /\ \E w \in Workers :
        /\ pc[w] = "idle"
        /\ \A v \in Workers : v < w => pc[v] # "idle"
        /\ pc' = [pc EXCEPT ![w] = "setup"]
    /\ running' = TRUE
    /\ UNCHANGED <<midi_out, midi_timer, device, current_rocker, resp, pos0, sent, hist, cancelled>>

\* setup_hid at the head of kpod_worker: the device opens, or the worker
\* returns (self.running stays set).
setup_hid(w) ==
    /\ pc[w] = "setup"
    /\ \E opened \in BOOLEAN :
        IF opened
            THEN device' = "open" /\ pc' = [pc EXCEPT ![w] = "loop"] /\ cancelled' = cancelled
            ELSE device' = device /\ pc' = [pc EXCEPT ![w] = "idle"] /\ cancelled' = cancelled \ {w}
    /\ UNCHANGED <<midi_out, midi_timer, current_rocker, running, resp, pos0, sent, hist>>

\* The head of one cycle: "while self.running", send_kpod_command('u') and the
\* two tests of the response.  reports is the set of responses the device may
\* give; without a device handle send_kpod_command returns None.
poll(w, reports) ==
    /\ pc[w] = "loop"
    /\ running
    /\ Len(hist) < MaxCycles
    /\ \E r \in reports :
        LET response == IF device = "none" THEN NoResponse ELSE r
        IN  /\ resp' = [resp EXCEPT ![w] = response]
            /\ pc' = [pc EXCEPT ![w] = IF ValidReport(response) THEN "rocker" ELSE "sleep"]
    /\ pos0' = [pos0 EXCEPT ![w] = current_rocker]
    /\ UNCHANGED <<midi_out, midi_timer, device, current_rocker, running, sent, hist, cancelled>>

\* Variant: without the comparison with self.current_rocker at line 352.
rocker_block_resend(w, faults) ==
    /\ pc[w] = "rocker"
    /\ LET ticks == TicksOf(resp[w])
           controls == ControlsOf(resp[w])
           has_activity == HasActivity(ticks, controls)
           new_position == detect_rocker_position_from_event(controls, has_activity, current_rocker)
       IN  IF new_position # "None"
             THEN /\ \E res \in SendOutcomes(faults) :
                       sent' = sent \o [i \in DOMAIN send_rocker_position_change(new_position) |->
                                   send_note(w, "rocker", send_rocker_position_change(new_position)[i], res)]
                  /\ current_rocker' = new_position
             ELSE UNCHANGED <<sent, current_rocker>>
    /\ pc' = [pc EXCEPT ![w] = Succ("rocker")]
    /\ UNCHANGED <<midi_out, midi_timer, device, running, resp, pos0, hist, cancelled>>

\* Variant: the new position stored only when its note was delivered.
rocker_block_on_delivery(w, faults) ==
    /\ pc[w] = "rocker"
    /\ LET ticks == TicksOf(resp[w])
           controls == ControlsOf(resp[w])
           has_activity == HasActivity(ticks, controls)
           new_position == detect_rocker_position_from_event(controls, has_activity, current_rocker)
       IN  IF new_position # "None" /\ new_position # current_rocker
             THEN \E res \in SendOutcomes(faults) :
                    /\ sent' = sent \o [i \in DOMAIN send_rocker_position_change(new_position) |->
                                   send_note(w, "rocker", send_rocker_position_change(new_position)[i], res)]
                    /\ current_rocker' = IF res = "ok" THEN new_position ELSE current_rocker
             ELSE UNCHANGED <<sent, current_rocker>>
    /\ pc' = [pc EXCEPT ![w] = Succ("rocker")]
    /\ UNCHANGED <<midi_out, midi_timer, device, running, resp, pos0, hist, cancelled>>

\* Lines 348-356: detect the rocker position; on a change send its note, then
\* store the new position.
rocker_block(w, faults) ==
    /\ pc[w] = "rocker"
    /\ LET ticks == TicksOf(resp[w])
           controls == ControlsOf(resp[w])
           has_activity == HasActivity(ticks, controls)
           new_position == detect_rocker_position_from_event(controls, has_activity, current_rocker)
       IN  IF new_position # "None" /\ new_position # current_rocker
             THEN /\ \E res \in SendOutcomes(faults) :
                       sent' = sent \o [i \in DOMAIN send_rocker_position_change(new_position) |->
                                   send_note(w, "rocker", send_rocker_position_change(new_position)[i], res)]
                  /\ current_rocker' = new_position
             ELSE UNCHANGED <<sent, current_rocker>>
    /\ pc' = [pc EXCEPT ![w] = Succ("rocker")]
    /\ UNCHANGED <<midi_out, midi_timer, device, running, resp, pos0, hist, cancelled>>

\* Lines 358-373: abs(ticks) notes on the CW or CCW note of the position.
encoder_block(w, faults) ==
    /\ pc[w] = "encoder"
    /\ LET ticks == TicksOf(resp[w])
           notes == get_encoder_notes(current_rocker)
           note == IF ticks > 0 THEN notes[1] ELSE notes[2]
       IN  \E res \in [1..Abs(ticks) -> SendOutcomes(faults)] :
               sent' = sent \o [i \in 1..Abs(ticks) |-> send_note(w, "encoder", note, res[i])]
    /\ pc' = [pc EXCEPT ![w] = Succ("encoder")]
    /\ UNCHANGED <<midi_out, midi_timer, device, current_rocker, running, resp, pos0, hist, cancelled>>

\* Variant: a send that did not deliver both messages is made again.
button_block_retry(w, faults) ==
    /\ pc[w] = "button"
    /\ LET controls == ControlsOf(resp[w])
           button_bits == BitAnd(controls, 15)
       IN  IF button_bits # 0
             THEN \E res \in SendOutcomes(faults) :
                      sent' = IF res \in {"on_err", "off_err"}
                                THEN sent \o << send_note(w, "button", ButtonNote(controls), res),
                                                send_note(w, "button", ButtonNote(controls), "ok") >>
                                ELSE Append(sent, send_note(w, "button", ButtonNote(controls), res))
             ELSE sent' = sent
    /\ pc' = [pc EXCEPT ![w] = Succ("button")]
    /\ UNCHANGED <<midi_out, midi_timer, device, current_rocker, running, resp, pos0, hist, cancelled>>

\* Lines 375-399: one note for the lowest set button bit, if any.
button_block(w, faults) ==
    /\ pc[w] = "button"
    /\ LET controls == ControlsOf(resp[w])
           button_bits == BitAnd(controls, 15)
       IN  IF button_bits # 0
             THEN \E res \in SendOutcomes(faults) :
                      sent' = Append(sent, send_note(w, "button", ButtonNote(controls), res))
             ELSE sent' = sent
    /\ pc' = [pc EXCEPT ![w] = Succ("button")]
    /\ UNCHANGED <<midi_out, midi_timer, device, current_rocker, running, resp, pos0, hist, cancelled>>

\* The cycle as hist records it.
CycleRecord(w) ==
    [b3 |-> ControlsOf(resp[w]), ticks |-> TicksOf(resp[w]),
     pos |-> current_rocker, calls |-> CallsOf(w)]

\* Line 401: time.sleep(0.01); the locals of the cycle are dead.  With keep,
\* a cycle that had a valid report is appended to hist.
sleep(w, keep) ==
    /\ pc[w] = "sleep"
    /\ pc' = [pc EXCEPT ![w] = "loop"]
    /\ hist' = IF keep /\ ValidReport(resp[w]) THEN Append(hist, CycleRecord(w)) ELSE hist
    /\ sent' = SelectSeq(sent, LAMBDA c : c.w # w)
    /\ resp' = [resp EXCEPT ![w] = NoResponse]
    /\ pos0' = [pos0 EXCEPT ![w] = "UNKNOWN"]
    /\ UNCHANGED <<midi_out, midi_timer, device, current_rocker, running, cancelled>>

\* stop_kpod: the Stop button clears the flag every worker reads.
stop_kpod ==
    /\ running
    /\ running' = FALSE
    /\ cancelled' = {w \in Workers : pc[w] # "idle"}
    /\ UNCHANGED <<midi_out, midi_timer, device, current_rocker, pc, resp, pos0, sent, hist>>

\* "while self.running" found false: the worker leaves the loop.
exit_loop(w) ==
    /\ pc[w] = "loop"
    /\ ~running
    /\ pc' = [pc EXCEPT ![w] = "finally"]
    /\ UNCHANGED <<midi_out, midi_timer, device, current_rocker, running, resp, pos0, sent, hist, cancelled>>

\* Variant: the handle closed and self.device left as it was.
cleanup_hid_skip(d) == d

\* cleanup_hid: self.device after it (closed and set to None when it was set).
cleanup_hid(d) == IF d # "none" THEN "none" ELSE d

\* The finally clause of kpod_worker (405-407): cleanup_hid, and the thread ends.
worker_finally(w) ==
    /\ pc[w] = "finally"
    /\ device' = cleanup_hid(device)
    /\ pc' = [pc EXCEPT ![w] = "idle"]
    /\ cancelled' = cancelled \ {w}
    /\ UNCHANGED <<midi_out, midi_timer, current_rocker, running, resp, pos0, sent, hist>>

\* ---------------------------------------------------------- specifications
\* The sessions below follow the bridge alone: the notifications its handlers
\* queue for the window are left out of them (SpecGui carries them).
Quiet == UNCHANGED <<message_queue, widgets>>

MidiSetup == delayed_midi_setup /\ Quiet
Start == start_kpod /\ Quiet
Stop == stop_kpod /\ Quiet
SetupHid(w) == setup_hid(w) /\ Quiet
ExitLoop(w) == exit_loop(w) /\ Quiet
WorkerFinally(w) == worker_finally(w) /\ Quiet

\* One monitoring session over every control byte and every tick delta in
\* range, with a MIDI port that accepts what it is sent once it is open.
PollAll(w) == poll(w, AllReports) /\ Quiet
RockerBlock(w) == rocker_block(w, {}) /\ Quiet
EncoderBlock(w) == encoder_block(w, {}) /\ Quiet
ButtonBlock(w) == button_block(w, {}) /\ Quiet
Sleep(w) == sleep(w, FALSE) /\ Quiet

Next ==
    \/ MidiSetup
    \/ Start
    \/ \E w \in Workers : SetupHid(w)
    \/ \E w \in Workers : PollAll(w)
    \/ \E w \in Workers : RockerBlock(w)
    \/ \E w \in Workers : EncoderBlock(w)
    \/ \E w \in Workers : ButtonBlock(w)
    \/ \E w \in Workers : Sleep(w)

Spec == Init /\ [][Next]_vars

\* The same session over the reports of the scenarios, with the completed
\* cycles kept in hist.
SeqReports ==
    { UpdateReport(0, 64), UpdateReport(0, 0), UpdateReport(1, 0),
      UpdateReport(0, 65), UpdateReport(0, 66), UpdateReport(1, 32), NoResponse }

PollSeq(w) == poll(w, SeqReports) /\ Quiet
SleepSeq(w) == sleep(w, TRUE) /\ Quiet

NextSeq ==
    \/ MidiSetup
    \/ Start
    \/ \E w \in Workers : SetupHid(w)
    \/ \E w \in Workers : PollSeq(w)
    \/ \E w \in Workers : RockerBlock(w)
    \/ \E w \in Workers : EncoderBlock(w)
    \/ \E w \in Workers : ButtonBlock(w)
    \/ \E w \in Workers : SleepSeq(w)

SpecSeq == Init /\ [][NextSeq]_vars

\* One session with a MIDI port whose sends may raise: each send_note call
\* may lose its Note-On ("on_err") or only its Note-Off ("off_err").
Faults == {"on_err", "off_err"}
FaultReports ==
    { UpdateReport(t, c) : t \in {0 - 2, 0, 1}, c \in {0, 32, 65, 81} } \cup {NoResponse}

PollFaults(w) == poll(w, FaultReports) /\ Quiet
RockerFaults(w) == rocker_block(w, Faults) /\ Quiet
EncoderFaults(w) == encoder_block(w, Faults) /\ Quiet
ButtonFaults(w) == button_block(w, Faults) /\ Quiet

NextFaults ==
    \/ MidiSetup
    \/ Start
    \/ \E w \in Workers : SetupHid(w)
    \/ \E w \in Workers : PollFaults(w)
    \/ \E w \in Workers : RockerFaults(w)
    \/ \E w \in Workers : EncoderFaults(w)
    \/ \E w \in Workers : ButtonFaults(w)
    \/ \E w \in Workers : Sleep(w)

SpecFaults == Init /\ [][NextFaults]_vars

\* Start and Stop pressed at any time, over a few reports: workers come and go.
ThreadReports == { UpdateReport(1, 32), NoResponse }

PollThreads(w) == poll(w, ThreadReports) /\ Quiet

NextThreads ==
    \/ MidiSetup
    \/ Start
    \/ Stop
    \/ \E w \in Workers : SetupHid(w)
    \/ \E w \in Workers : PollThreads(w)
    \/ \E w \in Workers : RockerBlock(w)
    \/ \E w \in Workers : EncoderBlock(w)
    \/ \E w \in Workers : ButtonBlock(w)
    \/ \E w \in Workers : Sleep(w)
    \/ \E w \in Workers : ExitLoop(w)
    \/ \E w \in Workers : WorkerFinally(w)

SpecThreads == Init /\ [][NextThreads]_vars

\* The window at work during one monitoring session, with a MIDI port that
\* accepts what it is sent: every handler with the notifications it queues,
\* and the Tk timer that consumes them.  MaxQueue bounds the queue: a handler
\* runs when its messages fit.
MaxQueue == 5

GuiReports == { UpdateReport(0, 32), UpdateReport(1, 65), NoResponse }

\* log_message, update_status, update_last_action, update_rocker_display:
\* message_queue.put of the messages msgs, in order.
Notify(msgs) ==
    /\ Len(message_queue) + Len(msgs) <= MaxQueue
    /\ message_queue' = message_queue \o msgs
    /\ widgets' = widgets

\* What one send_note call and the two lines after it queue: the error line
\* of send_note when a send raised, then the action as LOG and as ACTION.
CallMsgs(call) ==
    (IF call.res \in Faults THEN <<LogMsg>> ELSE << >>) \o <<LogMsg, ActionMsg(call.kind)>>

RECURSIVE CallsMsgs(_)
CallsMsgs(calls) ==
    IF calls = << >> THEN << >> ELSE CallMsgs(Head(calls)) \o CallsMsgs(Tail(calls))

\* The send_note calls the step has added to sent.
NewCalls == SubSeq(sent', Len(sent) + 1, Len(sent'))

\* setup_midi: the list of ports (unless MidiOut() itself raised), then the
\* outcome as LOG and STATUS.
MidiSetupGui ==
    /\ delayed_midi_setup
    /\ \E ports_logged \in BOOLEAN :
        /\ midi_out' # "none" => ports_logged
        /\ Notify((IF ports_logged THEN <<LogMsg>> ELSE << >>) \o
                  <<LogMsg, StatusMsg("MIDI", CASE midi_out' = "open" -> "Connected"
                                                [] midi_out' = "unopened" -> "IAC Driver not found"
                                                [] OTHER -> "Error")>>)

StartGui == start_kpod /\ Notify(<<LogMsg>>)

\* setup_hid, get_device_info (a line for each of the two answers that came)
\* and "KPOD monitoring started"; or the error of setup_hid.
SetupHidGui(w) ==
    /\ setup_hid(w)
    /\ IF pc'[w] = "loop"
         THEN \E info \in 0..2 :
                Notify(<<LogMsg, StatusMsg("KPOD", "Connected")>> \o
                       [i \in 1..info |-> LogMsg] \o <<LogMsg>>)
         ELSE Notify(<<LogMsg, StatusMsg("KPOD", "Error")>>)

\* send_kpod_command logs when the exchange raised (the response is None).
PollGui(w) ==
    /\ poll(w, GuiReports)
    /\ \E raised \in BOOLEAN :
        /\ raised => (device # "none" /\ resp'[w] = NoResponse)
        /\ Notify(IF raised THEN <<LogMsg>> ELSE << >>)

RockerGui(w) ==
    /\ rocker_block(w, {})
    /\ Notify(CallsMsgs(NewCalls) \o
              (IF current_rocker' # current_rocker
                 THEN <<RockerMsg(display_names[current_rocker'])>> ELSE << >>))

EncoderGui(w) == encoder_block(w, {}) /\ Notify(CallsMsgs(NewCalls))

ButtonGui(w) == button_block(w, {}) /\ Notify(CallsMsgs(NewCalls))

SleepGui(w) == sleep(w, FALSE) /\ Notify(<< >>)

\* Variant: a ROCKER message written back to the tracked position.
process_messages_sync ==
    /\ message_queue # << >>
    /\ LET message == Head(message_queue)
           msg_type == message[1]
       IN  /\ widgets' =
                CASE msg_type = "LOG" -> [widgets EXCEPT !.log_text = "text"]
                  [] msg_type = "STATUS" /\ message[2] = "KPOD" ->
                        [widgets EXCEPT !.kpod_status = message[3]]
                  [] msg_type = "STATUS" /\ message[2] = "MIDI" ->
                        [widgets EXCEPT !.midi_status = message[3]]
                  [] msg_type = "ROCKER" -> [widgets EXCEPT !.rocker_label = message[2]]
                  [] msg_type = "ACTION" -> [widgets EXCEPT !.last_action = message[2]]
                  [] OTHER -> widgets
           /\ current_rocker' =
                IF msg_type = "ROCKER"
                  THEN CHOOSE p \in Positions : display_names[p] = message[2]
                  ELSE current_rocker
    /\ message_queue' = Tail(message_queue)
    /\ UNCHANGED <<midi_out, midi_timer, device, running, pc, resp, pos0, sent, hist,
                   cancelled>>

\* process_messages, one turn of its loop: get_nowait and the branch of the
\* message type (the worker threads may put between two turns).  With the
\* queue empty the handler only sets its timer again.
process_messages ==
    /\ message_queue # << >>
    /\ LET message == Head(message_queue)
           msg_type == message[1]
       IN  widgets' =
                CASE msg_type = "LOG" -> [widgets EXCEPT !.log_text = "text"]
                  [] msg_type = "STATUS" /\ message[2] = "KPOD" ->
                        [widgets EXCEPT !.kpod_status = message[3]]
                  [] msg_type = "STATUS" /\ message[2] = "MIDI" ->
                        [widgets EXCEPT !.midi_status = message[3]]
                  [] msg_type = "ROCKER" -> [widgets EXCEPT !.rocker_label = message[2]]
                  [] msg_type = "ACTION" -> [widgets EXCEPT !.last_action = message[2]]
                  [] OTHER -> widgets
    /\ message_queue' = Tail(message_queue)
    /\ UNCHANGED <<midi_out, midi_timer, device, current_rocker, running, pc, resp, pos0,
                   sent, hist, cancelled>>

\* clear_log: the Clear Log button.
clear_log ==
    /\ widgets.log_text = "text"
    /\ widgets' = [widgets EXCEPT !.log_text = "empty"]
    /\ UNCHANGED <<midi_out, midi_timer, device, current_rocker, running, pc, resp, pos0,
                   sent, hist, cancelled, message_queue>>

NextGui ==
    \/ MidiSetupGui
    \/ StartGui
    \/ \E w \in Workers : SetupHidGui(w)
    \/ \E w \in Workers : PollGui(w)
    \/ \E w \in Workers : RockerGui(w)
    \/ \E w \in Workers : EncoderGui(w)
    \/ \E w \in Workers : ButtonGui(w)
    \/ \E w \in Workers : SleepGui(w)
    \/ process_messages
    \/ clear_log

SpecGui == Init /\ [][NextGui]_vars

\* ------------------------------------------------------------ the claims
\* Fields of the control byte, read off its value.
RawRocker(c) == (c \div 32) % 4
RawButtons(c) == c % 16

\* A worker at the end of a cycle that had a valid report.
AtEnd(w) == pc[w] = "sleep" /\ ValidReport(resp[w])

\* The calls of one kind among <<kind, note>> pairs.
OfKind(calls, kind) == SelectSeq(calls, LAMBDA c : c[1] = kind)

Rank(kind) == CASE kind = "rocker" -> 1 [] kind = "encoder" -> 2 [] kind = "button" -> 3

\* C1: in every cycle the notes are sent in the order position change, encoder
\* ticks, button: no tick precedes the position change, no button note
\* precedes a tick, and there is at most one position change and one button.
C1_EventOrder ==
    \A w \in Workers :
        LET calls == CallsOf(w)
        IN  /\ \A i, j \in DOMAIN calls : i < j => Rank(calls[i][1]) <= Rank(calls[j][1])
            /\ Len(OfKind(calls, "rocker")) <= 1
            /\ Len(OfKind(calls, "button")) <= 1

C1_Witness ==
    \E w \in Workers :
        /\ AtEnd(w)
        /\ Len(OfKind(CallsOf(w), "rocker")) = 1
        /\ Len(OfKind(CallsOf(w), "encoder")) = 2
        /\ Len(OfKind(CallsOf(w), "button")) = 1

C3_ActivityInfersCenter ==
    \A w \in Workers :
        ( /\ AtEnd(w)
          /\ RawRocker(ControlsOf(resp[w])) = 0
          /\ (TicksOf(resp[w]) # 0 \/ RawButtons(ControlsOf(resp[w])) # 0) )
        => /\ current_rocker = "VFO B"
           /\ pos0[w] # "VFO B" => OfKind(CallsOf(w), "rocker") = << <<"rocker", 111>> >>

\* C4 (as claimed): a report with rocker bits 00 received at VFO A or XIT/RIT
\* leaves the position at VFO B, whatever the other bits of the control byte.
C4_LeavingSideInfersCenter ==
    \A w \in Workers :
        ( /\ AtEnd(w)
          /\ RawRocker(ControlsOf(resp[w])) = 0
          /\ pos0[w] \in {"VFO A", "XIT/RIT"} )
        => current_rocker = "VFO B"

\* The reports of hist, read as the claims read them.
Idle(h) == RawRocker(h.b3) = 0 /\ h.ticks = 0 /\ RawButtons(h.b3) = 0
Active(h) == RawRocker(h.b3) = 0 /\ (h.ticks # 0 \/ RawButtons(h.b3) # 0)

C6_RawBitsDecide ==
    \A w \in Workers :
        AtEnd(w) =>
            /\ RawRocker(ControlsOf(resp[w])) = 2 => current_rocker = "VFO A"
            /\ RawRocker(ControlsOf(resp[w])) = 1 => current_rocker = "XIT/RIT"

C6_Witness ==
    \E w \in Workers :
        /\ AtEnd(w)
        /\ pos0[w] = "VFO B"
        /\ ControlsOf(resp[w]) = 64 + 128 + 16 + 15
        /\ TicksOf(resp[w]) < 0
        /\ current_rocker = "VFO A"

\* C7: a report with rocker bits 00, tick delta 0 and no button bit, received
\* at UNKNOWN or VFO B, leaves the position as it was and sends no note; so
\* every idle poll from UNKNOWN ends at UNKNOWN with nothing sent.
C7_NoSpuriousTransition ==
    \A w \in Workers :
        ( /\ AtEnd(w)
          /\ RawRocker(ControlsOf(resp[w])) = 0
          /\ TicksOf(resp[w]) = 0
          /\ RawButtons(ControlsOf(resp[w])) = 0
          /\ pos0[w] \in {"UNKNOWN", "VFO B"} )
        => /\ current_rocker = pos0[w]
           /\ CallsOf(w) = << >>

C7_Witness ==
    \E w \in Workers :
        /\ AtEnd(w)
        /\ ControlsOf(resp[w]) = 0
        /\ TicksOf(resp[w]) = 0
        /\ pos0[w] = "UNKNOWN"
        /\ midi_out = "open"

PositionNote(p) ==
    CASE p = "VFO A" -> 110 [] p = "VFO B" -> 111 [] p = "XIT/RIT" -> 112 [] OTHER -> 0 - 1

\* C8: a cycle sends at most one position change note, only when the position
\* at its end differs from the one at its start, and on the note of the new
\* position (110, 111, 112); a cycle that resolves to the tracked position
\* sends none.
C8_PositionChangeOnlyOnChange ==
    \A w \in Workers :
        AtEnd(w) =>
            LET rc == OfKind(CallsOf(w), "rocker")
            IN  /\ Len(rc) <= 1
                /\ Len(rc) = 1 =>
                      /\ current_rocker # pos0[w]
                      /\ rc[1][2] = PositionNote(current_rocker)
                /\ current_rocker = pos0[w] => rc = << >>

C8_Witness ==
    \E w \in Workers :
        /\ AtEnd(w)
        /\ pos0[w] = "VFO A"
        /\ RawRocker(ControlsOf(resp[w])) = 2
        /\ current_rocker = "VFO A"
        /\ midi_out = "open"

\* C9 (as claimed): a valid report that repeats the control byte of the valid
\* report before it, button bits set, sends no button note.
C9_ButtonEdgeTriggered ==
    \A i \in 2..Len(hist) :
        (hist[i].b3 = hist[i - 1].b3 /\ RawButtons(hist[i].b3) # 0)
            => OfKind(hist[i].calls, "button") = << >>

RECURSIVE ButtonNotes(_)
ButtonNotes(h) ==
    IF h = << >> THEN << >>
    ELSE LET b == OfKind(Head(h).calls, "button")
         IN  [i \in DOMAIN b |-> b[i][2]] \o ButtonNotes(Tail(h))

\* C10 (as claimed): the control bytes 0x41, 0x41, 0x42, 0x41 send three
\* button notes in all: 64, 65, 64.
C10_ThreeButtonEvents ==
    ( /\ Len(hist) = 4
      /\ hist[1].b3 = 65 /\ hist[2].b3 = 65 /\ hist[3].b3 = 66 /\ hist[4].b3 = 65 )
    => ButtonNotes(hist) = <<64, 65, 64>>

\* Index of the lowest set bit of a non-zero button bitmask.
LowBit(b) == CHOOSE i \in 0..3 : (b \div (2 ^ i)) % 2 = 1 /\ b % (2 ^ i) = 0
HoldFlag(c) == (c \div 16) % 2 = 1

\* C11 (as claimed): a control byte with exactly bit i of the button bitmask
\* set sends the button note 64 + i (TAP) or 72 + i (HOLD).
C11_ButtonNoteOfBit ==
    \A w \in Workers :
        (AtEnd(w) /\ RawButtons(ControlsOf(resp[w])) \in {1, 2, 4, 8})
        => OfKind(CallsOf(w), "button") =
              << <<"button", (IF HoldFlag(ControlsOf(resp[w])) THEN 72 ELSE 64)
                                + LowBit(RawButtons(ControlsOf(resp[w])))>> >>

\* C12 (as claimed): the button note sent is the one of every control byte
\* with the same tap/hold flag and the same lowest set button bit.
C12_LowestBitDecides ==
    \A w \in Workers :
        (AtEnd(w) /\ RawButtons(ControlsOf(resp[w])) # 0)
        => \A c2 \in Bytes :
              ( /\ RawButtons(c2) # 0
                /\ HoldFlag(c2) = HoldFlag(ControlsOf(resp[w]))
                /\ LowBit(RawButtons(c2)) = LowBit(RawButtons(ControlsOf(resp[w]))) )
              => OfKind(CallsOf(w), "button") = << <<"button", ButtonNote(c2)>> >>

\* C13: every block of a cycle with a valid report can run, whatever the
\* control byte and tick delta, and the cycle sends exactly one button note
\* when button bits are set, in 64..71 for TAP and 72..79 for HOLD, and none
\* otherwise.
C13_EveryInputTranslatable ==
    \A w \in Workers :
        /\ pc[w] = "rocker" => ENABLED RockerBlock(w)
        /\ pc[w] = "encoder" => ENABLED EncoderBlock(w)
        /\ pc[w] = "button" => ENABLED ButtonBlock(w)
        /\ pc[w] = "sleep" => ENABLED Sleep(w)
        /\ AtEnd(w) =>
              LET b == OfKind(CallsOf(w), "button")
                  c == ControlsOf(resp[w])
              IN  IF RawButtons(c) = 0 THEN b = << >>
                  ELSE /\ Len(b) = 1
                       /\ b[1][2] \in (IF HoldFlag(c) THEN 72..79 ELSE 64..71)

C13_Witness ==
    \E w \in Workers :
        /\ AtEnd(w)
        /\ ControlsOf(resp[w]) = 128 + 16 + 15
        /\ TicksOf(resp[w]) = MaxTick
        /\ OfKind(CallsOf(w), "button") = << <<"button", 72>> >>

C16_NoteOnThenOff ==
    LET wire == Wire(sent)
    IN  \A i \in DOMAIN wire :
            wire[i][1] = 144 => (i < Len(wire) /\ wire[i + 1] = <<128, wire[i][2], 0>>)

\* C17: a send that fails is made once and not again, the other notes of the
\* cycle are still sent, and the worker goes on: the cycle makes one call for
\* a position change, abs(tick delta) encoder calls and one call for a button,
\* whatever the outcome of each, and every next step of the worker can run.
C17_SendFailureIsDropped ==
    \A w \in Workers :
        /\ pc[w] = "encoder" => ENABLED EncoderFaults(w)
        /\ pc[w] = "button" => ENABLED ButtonFaults(w)
        /\ pc[w] = "sleep" => ENABLED Sleep(w)
        /\ (pc[w] = "loop" /\ running) => ENABLED PollFaults(w)
        /\ AtEnd(w) =>
              LET calls == CallsOf(w)
                  t == TicksOf(resp[w])
              IN  /\ Len(OfKind(calls, "rocker")) = (IF current_rocker # pos0[w] THEN 1 ELSE 0)
                  /\ Len(OfKind(calls, "encoder")) = (IF t < 0 THEN 0 - t ELSE t)
                  /\ Len(OfKind(calls, "button")) =
                        (IF RawButtons(ControlsOf(resp[w])) # 0 THEN 1 ELSE 0)

C17_Witness ==
    \E w \in Workers :
        /\ AtEnd(w)
        /\ Len(sent) = 4
        /\ sent[1].res = "on_err"
        /\ sent[2].res = "off_err"
        /\ sent[3].res = "ok"
        /\ sent[4].res = "on_err"
        /\ sent[4].kind = "button"

\* C18: a response of another length than 8, or whose first byte is not 'u',
\* is processed by no block: the cycle ends with no note sent and the position
\* as it was, and the worker goes on.
C18_MalformedReportSkipped ==
    \A w \in Workers :
        (resp[w].len # 8 \/ resp[w].b0 # 117) =>
            /\ pc[w] \notin {"rocker", "encoder", "button"}
            /\ pc[w] = "sleep" =>
                  /\ CallsOf(w) = << >>
                  /\ current_rocker = pos0[w]
                  /\ ENABLED Sleep(w)

C18_Witness ==
    \E w \in Workers :
        /\ pc[w] = "sleep"
        /\ resp[w].len = 8
        /\ resp[w].b0 = 118
        /\ current_rocker = "XIT/RIT"
        /\ midi_out = "open"

\* C19 (as claimed): a worker that was alive when Stop was pressed starts no
\* HID exchange at its next test of the flag: from the head of the loop it
\* leaves the loop.
C19_CancelledWorkerStopsPolling ==
    [][\A w \in Workers :
          (w \in cancelled /\ pc[w] = "loop") => pc'[w] \in {"loop", "finally"}]_vars

C21_SinglePollingWorker ==
    Cardinality({w \in Workers : pc[w] \in {"rocker", "encoder", "button", "sleep"}}) <= 1

\* C23: the position starts as UNKNOWN, and every step that moves it to VFO B
\* is the rocker block of a cycle whose report has rocker raw bits 00.
C23_CenterOnlyInferred ==
    /\ current_rocker = "UNKNOWN"
    /\ [][(current_rocker # "VFO B" /\ current_rocker' = "VFO B") =>
            \E w \in Workers :
                /\ pc[w] = "rocker" /\ pc'[w] = "encoder"
                /\ ValidReport(resp[w])
                /\ RawRocker(ControlsOf(resp[w])) = 0]_vars

C23_Witness ==
    \E w \in Workers :
        /\ AtEnd(w)
        /\ pos0[w] = "VFO A"
        /\ current_rocker = "VFO B"
        /\ RawRocker(ControlsOf(resp[w])) = 0

\* C24: the position is always one of the four positions, and once it is not
\* UNKNOWN no step (a cycle on any report, Start, Stop, a worker ending) makes
\* it UNKNOWN again.
C24_NeverBackToUnknown ==
    [][/\ current_rocker' \in Positions
       /\ current_rocker # "UNKNOWN" => current_rocker' # "UNKNOWN"]_vars

C24_Witness ==
    \E w \in Workers :
        /\ w > 1
        /\ pc[w] = "sleep"
        /\ resp[w] = NoResponse
        /\ running
        /\ current_rocker = "XIT/RIT"

\* C25: after the rocker block the tracked position is the position the
\* report resolves to, whatever became of the position-change note, and the
\* note is tried once, in the cycle that found the change: a cycle that
\* resolves to the position already tracked makes no position-change call.
C25_PositionAdvancesWithoutDelivery ==
    \A w \in Workers :
        AtEnd(w) =>
            LET ticks == TicksOf(resp[w])
                controls == ControlsOf(resp[w])
                np == detect_rocker_position_from_event(controls, HasActivity(ticks, controls), pos0[w])
                calls == OfKind(CallsOf(w), "rocker")
            IN  IF np \notin {"None", pos0[w]}
                  THEN current_rocker = np /\ calls = << <<"rocker", PositionNote(np)>> >>
                  ELSE current_rocker = pos0[w] /\ calls = << >>

C25_Witness ==
    \E w \in Workers :
        /\ AtEnd(w)
        /\ pos0[w] = "UNKNOWN"
        /\ current_rocker = "XIT/RIT"
        /\ \E i \in DOMAIN sent :
              sent[i].kind = "rocker" /\ sent[i].res \in {"skip", "no_port", "on_err"}

C22_ChannelReadOnly ==
    [][Len(message_queue') < Len(message_queue) =>
          UNCHANGED <<current_rocker, running, device, midi_out>>]_vars

C22_Witness ==
    /\ message_queue = << >>
    /\ widgets.log_text = "text"
    /\ widgets.kpod_status = "Connected"
    /\ widgets.midi_status = "Connected"
    /\ widgets.rocker_label = "VFO A (Left)"
    /\ widgets.last_action = "button"
    /\ current_rocker = "VFO A"
    /\ running

=============================================================================
